---- MODULE Spec2Model ----
(***************************************************************************)
(* State-machine model of src/server.js: an in-memory identity registry    *)
(* (users, usersByPhone, userSockets) and a chat relay (messages plus the  *)
(* socket.io rooms) driven by socket events and by the REST purge routes.  *)
(* Every socket handler and every REST route runs to completion on the     *)
(* single JavaScript thread, so each one is one atomic action.             *)
(***************************************************************************)
EXTENDS Integers, Sequences, FiniteSets, TLC

VARIABLES
    connState,    \* socket id -> "idle" | "open" | "closed"
    users,        \* userId -> [socketId, phoneNumber, password, lastSeen]
    usersByPhone, \* normalized phone -> userId
    userSockets,  \* socket id -> userId
    messages,     \* chatId -> sequence of stored messages
    rooms,        \* chatId -> set of socket ids joined to the socket.io room
    delivered,    \* socket id -> sequence of events emitted to that socket
    now,          \* the value Date.now() returns
    reply,        \* the latest event handled: its name, the inputs noted
                  \* of it, and its acknowledgement (the callback's argument
                  \* or the HTTP response) or whether it was accepted
    issued,       \* history: every userId a successful register has returned
    sentLog       \* history: every accepted send_message, in arrival order

vars == <<connState, users, usersByPhone, userSockets, messages, rooms,
          delivered, now, reply, issued, sentLog>>

-----------------------------------------------------------------------------
(* Bounds of the model *)

MaxConns == 2

MaxIds == 2

MaxPhones == 2

MaxClock == 2

MaxMsgs == 2

MaxJoins == 2

(* Program constants *)

MaxAttempts == 5

-----------------------------------------------------------------------------
(* Input domains *)

Conns == 1 .. MaxConns

NoSocket == 0

IdChars == <<"A", "B", "C", "D">>

Ids == {IdChars[i] : i \in 1 .. MaxIds}

DigitChars == <<"5", "6", "7", "8">>

\* A phone number is a string, modelled as the sequence of its characters;
\* the empty sequence is the falsy (absent or empty) phoneNumber.
PhoneInputs ==
    {<< >>} \cup {<<DigitChars[i]>> : i \in 1 .. MaxPhones}
            \cup {<<"+", DigitChars[i]>> : i \in 1 .. MaxPhones}

\* "" is the falsy (absent or empty) password.
Secrets == {"", "a", "b"}

\* "" is the falsy (absent or empty) chatId.
ChatIds == {"r1", "r2"}

ChatInputs == ChatIds \cup {""}

-----------------------------------------------------------------------------
(* Maps *)

EmptyMap == << >>

Put(f, k, v) == [x \in (DOMAIN f) \cup {k} |-> IF x = k THEN v ELSE f[x]]

Remove(f, k) == [x \in (DOMAIN f) \ {k} |-> f[x]]

-----------------------------------------------------------------------------
(* Pure functions of the handlers *)

normalizePhone(phoneNumber) ==
    IF Head(phoneNumber) = "+" THEN phoneNumber ELSE <<"+">> \o phoneNumber

\* crypto.createHash('sha256').update(s).digest('hex'), first 16 hex digits
sha256(s) ==
    CASE s = ""  -> "e3b0c44298fc1c14"
      [] s = "a" -> "ca978112ca1bbdca"
      [] s = "b" -> "3e23e8160039594a"

\* The public summary every lookup and login returns.
summary(userId) ==
    [id |-> userId,
     phoneNumber |-> users[userId].phoneNumber,
     lastSeen |-> users[userId].lastSeen]

\* The id loop of register: generateShortId draws a candidate, and while the
\* candidate is a key of users and attempts < MaxAttempts it draws another.
\* idLoop(attempts) is the set of [userId, attempts] the loop can end with
\* once a candidate has been drawn after `attempts` retries: a candidate that
\* is no key of users ends the loop, one that is a key leads to another draw,
\* and after MaxAttempts retries any candidate ends it.
RECURSIVE idLoop(_)
idLoop(attempts) ==
    IF attempts < MaxAttempts
    THEN {[userId |-> d, attempts |-> attempts] : d \in Ids \ DOMAIN users}
         \cup (IF Ids \cap DOMAIN users # {}
               THEN idLoop(attempts + 1)
               ELSE {})
    ELSE {[userId |-> d, attempts |-> attempts] : d \in Ids}

generateUserId == idLoop(0)

find_user_by_id(userId) ==
    IF userId \in DOMAIN users
    THEN [success |-> TRUE, user |-> summary(userId)]
    ELSE [success |-> FALSE, error |-> "User not found"]

find_user_by_phone(phoneNumber) ==
    LET found == {u \in DOMAIN users :
                    \/ users[u].phoneNumber = normalizePhone(phoneNumber)
                    \/ users[u].phoneNumber = phoneNumber}
    IN IF found # {}
       THEN [success |-> TRUE, user |-> summary(CHOOSE u \in found : TRUE)]
       ELSE [success |-> FALSE, error |-> "User not found"]

get_user_by_phone(phone) ==
    LET normalizedPhone == normalizePhone(phone)
    IN IF normalizedPhone \in DOMAIN usersByPhone
          /\ usersByPhone[normalizedPhone] \in DOMAIN users
       THEN [success |-> TRUE, user |-> summary(usersByPhone[normalizedPhone])]
       ELSE [error |-> "User not found", phone |-> normalizedPhone]

health == [status |-> "ok",
           users |-> Cardinality(DOMAIN users),
           chats |-> Cardinality(DOMAIN messages)]

-----------------------------------------------------------------------------
(* Initial state: the maps as cleared at startup, no socket connected *)

Init ==
    /\ connState = [c \in Conns |-> "idle"]
    /\ users = EmptyMap
    /\ usersByPhone = EmptyMap
    /\ userSockets = EmptyMap
    /\ messages = EmptyMap
    /\ rooms = [ch \in ChatIds |-> {}]
    /\ delivered = [c \in Conns |-> << >>]
    /\ now = 1
    /\ reply = [op |-> "start"]
    /\ issued = {}
    /\ sentLog = << >>

-----------------------------------------------------------------------------
(* Environment *)

\* The clock advances.
Tick ==
    /\ now < MaxClock
    /\ now' = now + 1
    /\ reply' = [op |-> "tick"]
    /\ UNCHANGED <<connState, users, usersByPhone, userSockets, messages,
                   rooms, delivered, issued, sentLog>>

\* io.on('connection'): a new socket, with a socket id never used before.
connection(c) ==
    /\ connState[c] = "idle"
    /\ \A d \in Conns : d < c => connState[d] # "idle"
    /\ connState' = [connState EXCEPT ![c] = "open"]
    /\ reply' = [op |-> "connection"]
    /\ UNCHANGED <<users, usersByPhone, userSockets, messages, rooms,
                   delivered, now, issued, sentLog>>

-----------------------------------------------------------------------------
(* Identity registry handlers *)

\* Variant: register without the check for an already registered phone.
alreadyRegisteredNever(normalizedPhone) == FALSE

\* usersByPhone.has(normalizedPhone)
alreadyRegistered(normalizedPhone) == normalizedPhone \in DOMAIN usersByPhone

\* Variant: register without the check after the id loop.
idTakenNever(userId) == FALSE

\* users.has(userId), the check after the id loop
idTaken(userId) == userId \in DOMAIN users

\* Variant: register without usersByPhone.set.
registerInsertUnindexed(c, normalizedPhone, password, userId) ==
    /\ users' = Put(users, userId,
                    [socketId |-> c,
                     phoneNumber |-> normalizedPhone,
                     password |-> sha256(password),
                     lastSeen |-> now])
    /\ usersByPhone' = usersByPhone
    /\ userSockets' = Put(userSockets, c, userId)

\* users.set, usersByPhone.set, userSockets.set
registerInsert(c, normalizedPhone, password, userId) ==
    /\ users' = Put(users, userId,
                    [socketId |-> c,
                     phoneNumber |-> normalizedPhone,
                     password |-> sha256(password),
                     lastSeen |-> now])
    /\ usersByPhone' = Put(usersByPhone, normalizedPhone, userId)
    /\ userSockets' = Put(userSockets, c, userId)

register(c, phoneNumber, password) ==
    /\ connState[c] = "open"
    /\ IF phoneNumber = << >>
       THEN /\ reply' = [op |-> "register", phoneNumber |-> phoneNumber,
                         success |-> FALSE, error |-> "Missing phoneNumber"]
            /\ UNCHANGED <<users, usersByPhone, userSockets, issued>>
       ELSE IF alreadyRegistered(normalizePhone(phoneNumber))
       THEN /\ reply' = [op |-> "register", phoneNumber |-> phoneNumber,
                         success |-> FALSE, error |-> "User already exists",
                         userId |-> usersByPhone[normalizePhone(phoneNumber)]]
            /\ UNCHANGED <<users, usersByPhone, userSockets, issued>>
       ELSE \E g \in generateUserId :
            IF idTaken(g.userId)
            THEN /\ reply' = [op |-> "register", phoneNumber |-> phoneNumber,
                              success |-> FALSE,
                              error |-> "Failed to generate unique ID",
                              attempts |-> g.attempts]
                 /\ UNCHANGED <<users, usersByPhone, userSockets, issued>>
            ELSE /\ registerInsert(c, normalizePhone(phoneNumber), password,
                                   g.userId)
                 /\ issued' = issued \cup {g.userId}
                 /\ reply' = [op |-> "register", phoneNumber |-> phoneNumber,
                              success |-> TRUE, userId |-> g.userId,
                              attempts |-> g.attempts]
    /\ UNCHANGED <<connState, messages, rooms, delivered, now, sentLog>>

loginBind(c, userId) ==
    /\ users' = [users EXCEPT ![userId].socketId = c,
                              ![userId].lastSeen = now]
    /\ userSockets' = Put(userSockets, c, userId)

login(c, phoneNumber, password) ==
    /\ connState[c] = "open"
    /\ IF phoneNumber = << >> \/ password = ""
       THEN /\ reply' = [op |-> "login", success |-> FALSE,
                         error |-> "Missing phoneNumber or password"]
            /\ UNCHANGED <<users, userSockets>>
       ELSE IF \/ normalizePhone(phoneNumber) \notin DOMAIN usersByPhone
               \/ usersByPhone[normalizePhone(phoneNumber)] \notin DOMAIN users
       THEN /\ reply' = [op |-> "login", success |-> FALSE,
                         error |-> "User not found"]
            /\ UNCHANGED <<users, userSockets>>
       ELSE LET userId == usersByPhone[normalizePhone(phoneNumber)]
            IN IF users[userId].password # sha256(password)
               THEN /\ reply' = [op |-> "login", success |-> FALSE,
                                 error |-> "Invalid password"]
                    /\ UNCHANGED <<users, userSockets>>
               ELSE /\ loginBind(c, userId)
                    /\ reply' = [op |-> "login", success |-> TRUE,
                                 userId |-> userId,
                                 user |-> [summary(userId)
                                              EXCEPT !.lastSeen = now]]
    /\ UNCHANGED <<connState, usersByPhone, messages, rooms, delivered, now,
                   issued, sentLog>>

\* Variant: disconnect without userSockets.delete.
disconnectKeepsEntry(c) ==
    /\ connState[c] = "open"
    /\ connState' = [connState EXCEPT ![c] = "closed"]
    /\ IF c \in DOMAIN userSockets /\ userSockets[c] \in DOMAIN users
       THEN users' = [users EXCEPT ![userSockets[c]].lastSeen = now,
                                   ![userSockets[c]].socketId = NoSocket]
       ELSE users' = users
    /\ reply' = [op |-> "disconnect"]
    /\ rooms' = [ch \in ChatIds |-> rooms[ch] \ {c}]
    /\ UNCHANGED <<userSockets, usersByPhone, messages, delivered, now, issued,
                   sentLog>>

\* Variant: disconnect deletes the identity (users.delete for the two
\* assignments to the user).
disconnectDeletes(c) ==
    /\ connState[c] = "open"
    /\ connState' = [connState EXCEPT ![c] = "closed"]
    /\ IF c \in DOMAIN userSockets
       THEN /\ users' = [u \in DOMAIN users \ {userSockets[c]} |-> users[u]]
            /\ userSockets' = Remove(userSockets, c)
       ELSE UNCHANGED <<users, userSockets>>
    /\ reply' = [op |-> "disconnect"]
    /\ rooms' = [ch \in ChatIds |-> rooms[ch] \ {c}]
    /\ UNCHANGED <<usersByPhone, messages, delivered, now, issued, sentLog>>

\* socket.on('disconnect'); socket.io has taken the closed socket out of
\* every room by the time the handler has run.
disconnect(c) ==
    /\ connState[c] = "open"
    /\ connState' = [connState EXCEPT ![c] = "closed"]
    /\ IF c \in DOMAIN userSockets
       THEN LET userId == userSockets[c]
            IN /\ users' = IF userId \in DOMAIN users
                           THEN [users EXCEPT ![userId].lastSeen = now,
                                              ![userId].socketId = NoSocket]
                           ELSE users
               /\ userSockets' = Remove(userSockets, c)
       ELSE UNCHANGED <<users, userSockets>>
    /\ reply' = [op |-> "disconnect"]
    /\ rooms' = [ch \in ChatIds |-> rooms[ch] \ {c}]
    /\ UNCHANGED <<usersByPhone, messages, delivered, now, issued, sentLog>>

-----------------------------------------------------------------------------
(* Chat relay handlers *)

SenderInputs == {"", IdChars[1]}

\* 0 is the falsy (absent) timestamp; 9 is a timestamp the client supplies.
TimestampInputs == {0, 9}

\* The message of a send_message event: << >> when absent, else <<m>>, m the
\* message object; its text is opaque to the server and differs per send.
MessageInputs ==
    {<< >>} \cup
    {<<[text |-> Len(sentLog) + 1, userId |-> u, timestamp |-> t]>> :
        u \in SenderInputs, t \in TimestampInputs}

\* messages.get(chatId) || []
history(chatId) ==
    IF chatId \in DOMAIN messages THEN messages[chatId] ELSE << >>

RECURSIVE repliesUpTo(_)
\* Number of chat_history and error events emitted so far to sockets 1 .. n.
repliesUpTo(n) ==
    IF n = 0 THEN 0
    ELSE repliesUpTo(n - 1)
         + Len(SelectSeq(delivered[n], LAMBDA e : e.type # "new_message"))

\* Variant: io.emit for socket.emit, the event to every open socket.
emitToOpen(c, event) ==
    [d \in Conns |-> IF connState[d] = "open"
                     THEN Append(delivered[d], event)
                     ELSE delivered[d]]

\* socket.emit(type, payload): one event to the calling socket only.
emitTo(c, event) == [delivered EXCEPT ![c] = Append(@, event)]

\* Variant: io.emit for io.to(chatId).emit, one event to every open socket.
emitToAll(chatId, event) ==
    [d \in Conns |-> IF connState[d] = "open"
                     THEN Append(delivered[d], event)
                     ELSE delivered[d]]

\* io.to(chatId).emit(type, payload): one event to every socket in the room.
emitToRoom(chatId, event) ==
    [d \in Conns |-> IF d \in rooms[chatId]
                     THEN Append(delivered[d], event)
                     ELSE delivered[d]]

\* socket.join(chatId): the room is a set of socket ids.
socketJoin(c, chatId) == [rooms EXCEPT ![chatId] = @ \cup {c}]

join_chat(c, chatId, userId) ==
    /\ connState[c] = "open"
    /\ repliesUpTo(MaxConns) < MaxJoins
    /\ IF chatId = "" \/ userId = ""
       THEN /\ delivered' = emitTo(c, [type |-> "join_error"])
            /\ reply' = [op |-> "join_chat", chatId |-> chatId,
                         success |-> FALSE]
            /\ UNCHANGED rooms
       ELSE /\ rooms' = socketJoin(c, chatId)
            /\ delivered' = emitTo(c, [type |-> "chat_history",
                                       chatId |-> chatId,
                                       messages |-> history(chatId)])
            /\ reply' = [op |-> "join_chat", chatId |-> chatId,
                         success |-> TRUE]
    /\ UNCHANGED <<connState, users, usersByPhone, userSockets, messages, now,
                   issued, sentLog>>

\* Variant: the list replaced by the new message alone (set for push).
replaceMessages(chatId, stored) ==
    Put(messages, chatId, <<stored>>)

\* Variant: the message put at the front of the list (unshift for push).
prependMessage(chatId, stored) ==
    Put(messages, chatId, <<stored>> \o history(chatId))

\* messages.get(chatId).push(messageData), the list created when absent
appendMessage(chatId, stored) ==
    Put(messages, chatId, Append(history(chatId), stored))

\* Variant: the sender taken from the message or else "unknown", never from
\* userSockets.
messageDataUnbound(c, message) ==
    [text |-> message.text,
     timestamp |-> IF message.timestamp # 0 THEN message.timestamp ELSE now,
     userId |-> IF message.userId # "" THEN message.userId ELSE "unknown"]

\* const messageData = { ...message, timestamp: ..., userId: ... }
messageData(c, message) ==
    [text |-> message.text,
     timestamp |-> IF message.timestamp # 0 THEN message.timestamp ELSE now,
     userId |-> IF message.userId # "" THEN message.userId
                ELSE IF c \in DOMAIN userSockets THEN userSockets[c]
                ELSE "unknown"]

send_message(c, chatId, message) ==
    /\ connState[c] = "open"
    /\ IF chatId = "" \/ message = << >>
       THEN /\ repliesUpTo(MaxConns) < MaxJoins
            /\ delivered' = emitTo(c, [type |-> "message_error"])
            /\ reply' = [op |-> "send_message", chatId |-> chatId,
                         success |-> FALSE]
            /\ UNCHANGED <<messages, sentLog>>
       ELSE LET stored == messageData(c, message[1])
            IN /\ Len(sentLog) < MaxMsgs
               /\ messages' = appendMessage(chatId, stored)
               /\ delivered' = emitToRoom(chatId, [type |-> "new_message",
                                                   chatId |-> chatId,
                                                   message |-> stored])
               /\ sentLog' = Append(sentLog, [chatId |-> chatId,
                                              message |-> stored])
               /\ reply' = [op |-> "send_message", chatId |-> chatId,
                            success |-> TRUE]
    /\ UNCHANGED <<connState, users, usersByPhone, userSockets, rooms, now,
                   issued>>

-----------------------------------------------------------------------------
(* REST purge routes *)

\* Variant: DELETE /users without messages.clear().
purgeAllKeepsMessages ==
    /\ users' = EmptyMap
    /\ usersByPhone' = EmptyMap
    /\ userSockets' = EmptyMap
    /\ reply' = [op |-> "purgeAll",
                 deleted |-> [users |-> Cardinality(DOMAIN users),
                              chats |-> Cardinality(DOMAIN messages)]]
    /\ UNCHANGED <<connState, messages, rooms, delivered, now, issued,
                   sentLog>>

\* DELETE /users
purgeAll ==
    /\ users' = EmptyMap
    /\ usersByPhone' = EmptyMap
    /\ userSockets' = EmptyMap
    /\ messages' = EmptyMap
    /\ reply' = [op |-> "purgeAll",
                deleted |-> [users |-> Cardinality(DOMAIN users),
                             chats |-> Cardinality(DOMAIN messages)]]
    /\ UNCHANGED <<connState, rooms, delivered, now, issued, sentLog>>

\* Variant: DELETE /users/clear with messages.clear().
purgeUsersDropsMessages ==
    /\ users' = EmptyMap
    /\ usersByPhone' = EmptyMap
    /\ userSockets' = EmptyMap
    /\ messages' = EmptyMap
    /\ reply' = [op |-> "purgeUsers",
                 deleted |-> [users |-> Cardinality(DOMAIN users)]]
    /\ UNCHANGED <<connState, rooms, delivered, now, issued, sentLog>>

\* DELETE /users/clear
purgeUsers ==
    /\ users' = EmptyMap
    /\ usersByPhone' = EmptyMap
    /\ userSockets' = EmptyMap
    /\ reply' = [op |-> "purgeUsers",
                deleted |-> [users |-> Cardinality(DOMAIN users)]]
    /\ UNCHANGED <<connState, messages, rooms, delivered, now, issued,
                   sentLog>>

-----------------------------------------------------------------------------
(* Specifications *)

Connect == \E c \in Conns : connection(c)

Register == \E c \in Conns, p \in PhoneInputs, s \in Secrets : register(c, p, s)

Login == \E c \in Conns, p \in PhoneInputs, s \in Secrets : login(c, p, s)

Disconnect == \E c \in Conns : disconnect(c)

JoinChat ==
    \E c \in Conns, ch \in ChatInputs, u \in SenderInputs : join_chat(c, ch, u)

\* A join that names a channel and a user.
JoinNamed == \E c \in Conns, ch \in ChatIds : join_chat(c, ch, IdChars[1])

SendMessage ==
    \E c \in Conns, ch \in ChatInputs, m \in MessageInputs :
        send_message(c, ch, m)

Next ==
    \/ Tick
    \/ Connect
    \/ Register
    \/ Login
    \/ Disconnect
    \/ JoinChat
    \/ SendMessage
    \/ purgeAll
    \/ purgeUsers

Spec == Init /\ [][Next]_vars

\* The identity registry alone: no chat event changes what its handlers read.
NextRegistry ==
    \/ Tick
    \/ Connect
    \/ Register
    \/ Login
    \/ Disconnect
    \/ purgeAll
    \/ purgeUsers

SpecRegistry == Init /\ [][NextRegistry]_vars

\* A send that names a channel and whose message names neither sender nor
\* timestamp.
SendPlain ==
    \E c \in Conns, ch \in ChatIds :
        send_message(c, ch, <<[text |-> Len(sentLog) + 1, userId |-> "",
                               timestamp |-> 0]>>)

\* The chat relay alone: well-formed joins and sends from unregistered sockets.
NextChat ==
    \/ Connect
    \/ Disconnect
    \/ JoinNamed
    \/ SendPlain
    \/ purgeAll

SpecChat == Init /\ [][NextChat]_vars

\* Registration alone: register reads only the keys of users and of
\* usersByPhone, which no login, disconnect or tick changes, and it treats
\* every password alike.
RegisterPhone == \E c \in Conns, p \in PhoneInputs : register(c, p, "a")

NextIssue ==
    \/ Connect
    \/ RegisterPhone
    \/ Disconnect
    \/ purgeAll

SpecIssue == Init /\ [][NextIssue]_vars

\* The registry and the relay under the administrative purge. The purge, the
\* lookups and the lookup of login read no socket id, no password hash and
\* no message: the identities are registered and logged in on the first
\* socket with one password, the messages name one sender, and once the
\* table is empty a login comes from any socket with any input.
RegisterNamed ==
    \E i \in 1 .. MaxPhones : register(1, <<DigitChars[i]>>, "a")

LoginNamed ==
    \E i \in 1 .. MaxPhones, s \in {"", "a"} : login(1, <<DigitChars[i]>>, s)

LoginUnregistered ==
    /\ health.users = 0
    /\ \E c \in Conns, p \in PhoneInputs, s \in Secrets : login(c, p, s)

SendSigned ==
    \E c \in Conns, ch \in ChatIds :
        send_message(c, ch, <<[text |-> Len(sentLog) + 1,
                               userId |-> IdChars[1], timestamp |-> 0]>>)

NextAdmin ==
    \/ Connect
    \/ RegisterNamed
    \/ LoginNamed
    \/ LoginUnregistered
    \/ SendSigned
    \/ purgeAll

SpecAdmin == Init /\ [][NextAdmin]_vars

\* Joins with every input, from the first socket before and after it
\* registers and from sockets that never register, over channels that hold
\* messages.
NextJoin ==
    \/ Connect
    \/ Disconnect
    \/ RegisterNamed
    \/ JoinChat
    \/ SendSigned

SpecJoin == Init /\ [][NextJoin]_vars

\* The bindings of sockets to identities. Which socket an identity is bound
\* to, and which identity a socket, depends on no spelling of a phone number
\* and on no password beyond its being the registered one: every register
\* and login gives a phone number without "+" and the one password.
RegisterPlain ==
    \E c \in Conns, i \in 1 .. MaxPhones : register(c, <<DigitChars[i]>>, "a")

LoginPlain ==
    \E c \in Conns, i \in 1 .. MaxPhones : login(c, <<DigitChars[i]>>, "a")

\* The clock plays no part in the bindings.
NextBind ==
    \/ Connect
    \/ Disconnect
    \/ RegisterPlain
    \/ LoginPlain
    \/ purgeAll
    \/ purgeUsers

SpecBind == Init /\ [][NextBind]_vars

\* Sockets going offline as the clock advances: any socket registers any
\* phone number, and any socket logs in as the identity of the first one.
LoginFirst == \E c \in Conns : login(c, <<DigitChars[1]>>, "a")

NextOffline ==
    \/ Tick
    \/ Connect
    \/ Disconnect
    \/ RegisterPlain
    \/ LoginFirst

SpecOffline == Init /\ [][NextOffline]_vars

\* The relay under the purge of the identities alone, in rounds: the first
\* socket registers, sockets bound to an identity send, the identities are
\* purged, and then sockets join. Every message is sent while the table holds
\* an identity, and every join is made while it holds none after it has held
\* one: a purge separates each join from every message it finds.
RegisterOne == register(1, <<DigitChars[1]>>, "a")

SendBound ==
    \E c \in DOMAIN userSockets, ch \in ChatIds :
        send_message(c, ch, <<[text |-> Len(sentLog) + 1,
                               userId |-> IdChars[1], timestamp |-> 0]>>)

JoinAfterPurge ==
    /\ users = EmptyMap
    /\ issued # {}
    /\ JoinNamed

NextClear ==
    \/ Connect
    \/ RegisterOne
    \/ SendBound
    \/ purgeUsers
    \/ JoinAfterPurge

SpecClear == Init /\ [][NextClear]_vars

\* The histories under every kind of step: the first socket registers, logs
\* in, sends and disconnects, the last socket joins, and both purges occur.
LoginOne == login(1, <<DigitChars[1]>>, "a")

SendOne ==
    \E ch \in ChatIds :
        send_message(1, ch, <<[text |-> Len(sentLog) + 1,
                               userId |-> IdChars[1], timestamp |-> 0]>>)

JoinLast == \E ch \in ChatIds : join_chat(MaxConns, ch, IdChars[1])

DisconnectFirst == disconnect(1)

NextAppend ==
    \/ Connect
    \/ RegisterOne
    \/ LoginOne
    \/ SendOne
    \/ JoinLast
    \/ DisconnectFirst
    \/ purgeUsers
    \/ purgeAll

SpecAppend == Init /\ [][NextAppend]_vars

\* Refusals. The first socket registers and logs in, with a phone number
\* absent, registered under either spelling or new, and with a password
\* absent, right or wrong; it joins the first channel and sends to it. The
\* last socket makes the joins and sends that lack a field.
RegisterRefusable ==
    \E p \in {<< >>, <<DigitChars[1]>>, <<"+", DigitChars[1]>>,
               <<DigitChars[2]>>} :
        register(1, p, "a")

LoginRefusable ==
    \E p \in {<< >>, <<DigitChars[1]>>, <<DigitChars[2]>>}, s \in Secrets :
        login(1, p, s)

JoinFirst == join_chat(1, "r1", IdChars[1])

SendFirst ==
    send_message(1, "r1", <<[text |-> Len(sentLog) + 1,
                             userId |-> IdChars[1], timestamp |-> 0]>>)

JoinRefused ==
    \E ch \in ChatInputs, u \in SenderInputs :
        /\ ch = "" \/ u = ""
        /\ join_chat(MaxConns, ch, u)

SendRefused ==
    \E ch \in ChatInputs :
        \E m \in {<< >>, <<[text |-> Len(sentLog) + 1, userId |-> IdChars[1],
                             timestamp |-> 0]>>} :
            /\ ch = "" \/ m = << >>
            /\ send_message(MaxConns, ch, m)

NextFail ==
    \/ Connect
    \/ RegisterRefusable
    \/ LoginRefusable
    \/ JoinFirst
    \/ SendFirst
    \/ JoinRefused
    \/ SendRefused

SpecFail == Init /\ [][NextFail]_vars

\* Senders: the first socket registers and logs in as one identity after
\* another, the identities are purged, and every socket sends to the first
\* channel messages that name a sender and messages that name none.
SendEither ==
    \E c \in Conns, u \in SenderInputs :
        send_message(c, "r1", <<[text |-> Len(sentLog) + 1, userId |-> u,
                                 timestamp |-> 0]>>)

NextSender ==
    \/ Connect
    \/ RegisterNamed
    \/ LoginNamed
    \/ SendEither
    \/ purgeUsers

SpecSender == Init /\ [][NextSender]_vars

\* The two tables of the registry: every socket registers phone numbers in
\* either spelling and logs in, and both purges occur.
NextIndex ==
    \/ Connect
    \/ RegisterPhone
    \/ LoginPlain
    \/ purgeAll
    \/ purgeUsers

SpecIndex == Init /\ [][NextIndex]_vars

-----------------------------------------------------------------------------
(* Notions the properties are stated in *)

PhonesGiven == PhoneInputs \ {<< >>}

IsSuffix(s, t) ==
    /\ Len(s) =< Len(t)
    /\ \A i \in 1 .. Len(s) : s[i] = t[Len(t) - Len(s) + i]

\* Every message ever appended to the channel, in the order of the appends.
appended(chatId) ==
    LET ofChat == SelectSeq(sentLog, LAMBDA e : e.chatId = chatId)
    IN [i \in 1 .. Len(ofChat) |-> ofChat[i].message]

\* The positions in delivered[c] of the events of one type for one channel.
eventsAt(c, type, chatId) ==
    {i \in 1 .. Len(delivered[c]) :
        delivered[c][i].type = type /\ delivered[c][i].chatId = chatId}

Max(S) == CHOOSE x \in S : \A y \in S : y =< x

\* The messages broadcast to c for the channel after position j, in order.
broadcastAfter(c, chatId, j) ==
    LET evs == SelectSeq(SubSeq(delivered[c], j + 1, Len(delivered[c])),
                         LAMBDA e : e.type = "new_message" /\ e.chatId = chatId)
    IN [i \in 1 .. Len(evs) |-> evs[i].message]

\* What c has been given for the channel since its latest join: the history
\* of that join's chat_history reply, then the broadcasts after it.
sinceJoin(c, chatId) ==
    LET j == Max(eventsAt(c, "chat_history", chatId))
    IN delivered[c][j].messages \o broadcastAfter(c, chatId, j)

\* s is an initial part of t.
IsPrefix(s, t) ==
    /\ Len(s) =< Len(t)
    /\ \A i \in 1 .. Len(s) : s[i] = t[i]

\* The position in the arrival order of a broadcast message.
arrival(message) ==
    CHOOSE k \in 1 .. Len(sentLog) : sentLog[k].message = message

-----------------------------------------------------------------------------
(* C1 *)

\* C1: in every reachable state, for every identity whose socketId is not
\* null, that socket is open, userSockets maps the socket to this identity's
\* id, and no other identity has the same socketId.
C1_LiveConnectionBound ==
    \A u \in DOMAIN users :
        users[u].socketId # NoSocket =>
            /\ connState[users[u].socketId] = "open"
            /\ users[u].socketId \in DOMAIN userSockets
            /\ userSockets[users[u].socketId] = u
            /\ \A v \in DOMAIN users \ {u} :
                   users[v].socketId # users[u].socketId

-----------------------------------------------------------------------------
(* C2 *)

\* C2: a register whose normalized phone number is already a key of
\* usersByPhone, from any socket and after any other registers, is answered
\* with "User already exists" and the id of the identity that holds that
\* phone number, an id a register issued; and it changes none of users,
\* usersByPhone and userSockets. A register succeeds only for a phone number
\* that is not yet a key, and makes it one: of the registers for one phone
\* number at most one succeeds.
C2_AlreadyRegistered ==
    [][(reply'.op = "register" /\ reply'.phoneNumber # << >>) =>
          LET normalizedPhone == normalizePhone(reply'.phoneNumber)
          IN IF normalizedPhone \in DOMAIN usersByPhone
             THEN /\ reply'.success = FALSE
                  /\ reply'.error = "User already exists"
                  /\ reply'.userId \in DOMAIN users
                  /\ users[reply'.userId].phoneNumber = normalizedPhone
                  /\ reply'.userId \in issued
                  /\ UNCHANGED <<users, usersByPhone, userSockets>>
             ELSE reply'.success =>
                      /\ normalizedPhone \in DOMAIN usersByPhone'
                      /\ usersByPhone'[normalizedPhone] = reply'.userId
      ]_vars

\* A register has just been refused for a phone number that is registered,
\* given this time without the "+", while the socket of the registration is
\* still open and another open socket is bound to no identity.
C2_Witness ==
    /\ reply.op = "register"
    /\ reply.success = FALSE
    /\ reply.error = "User already exists"
    /\ reply.phoneNumber # normalizePhone(reply.phoneNumber)
    /\ users[reply.userId].socketId \in Conns
    /\ \E c \in Conns : connState[c] = "open" /\ c \notin DOMAIN userSockets

-----------------------------------------------------------------------------
(* C3 *)

\* C3: for every registered identity, a login with its phone number and the
\* secret given at its registration (the one whose hash is stored) succeeds
\* and returns a summary with no password field; a login with any other
\* secret is answered "Invalid password" and leaves the identity's lastSeen
\* and socketId and all of userSockets unchanged.
C3_LoginDecidedBySecret ==
    [][reply'.op = "login" =>
       \A c \in Conns, p \in PhonesGiven, s \in Secrets :
          (login(c, p, s) /\ normalizePhone(p) \in DOMAIN usersByPhone) =>
              LET u == usersByPhone[normalizePhone(p)]
              IN IF sha256(s) = users[u].password
                 THEN /\ reply'.success
                      /\ reply'.user.id = u
                      /\ "password" \notin DOMAIN reply'.user
                 ELSE /\ reply'.success = FALSE
                      /\ reply'.error = "Invalid password"
                      /\ users'[u].lastSeen = users[u].lastSeen
                      /\ users'[u].socketId = users[u].socketId
                      /\ UNCHANGED userSockets
      ]_vars

-----------------------------------------------------------------------------
(* C4 *)

-----------------------------------------------------------------------------
(* C5 *)

\* C5: a join_chat from a socket that is already a member of the channel
\* leaves the membership sets as they were and delivers no chat_history (no
\* event at all) to the socket: the history is not delivered a second time.
C5_RejoinDeliversNothing ==
    [][reply'.op = "join_chat" =>
       \A c \in Conns, ch \in ChatIds, u \in SenderInputs \ {""} :
          (join_chat(c, ch, u) /\ c \in rooms[ch]) =>
              /\ rooms' = rooms
              /\ delivered'[c] = delivered[c]
      ]_vars

-----------------------------------------------------------------------------
(* C6 *)

\* What purgeAll leaves and reports: no identity and no chat is counted, no
\* lookup by id or by phone number finds an identity, and the reply's
\* deleted counts are the counts from before the purge.
purgeAllEffect ==
    /\ health'.users = 0
    /\ health'.chats = 0
    /\ \A u \in Ids : find_user_by_id(u)'.success = FALSE
    /\ \A p \in PhonesGiven :
          /\ find_user_by_phone(p)'.success = FALSE
          /\ get_user_by_phone(p)'.error = "User not found"
    /\ reply'.deleted.users = health.users
    /\ reply'.deleted.chats = health.chats

\* C6 as stated: after purgeAll both counts are zero, every lookup reports
\* not-found, the deleted counts are the counts from before, and every login
\* that follows the purge is answered "User not found".
C6_PurgeThenEveryLoginNotFound ==
    [][/\ reply'.op = "purgeAll" => purgeAllEffect
       /\ (reply.op = "purgeAll" /\ reply'.op = "login") =>
              (reply'.success = FALSE /\ reply'.error = "User not found")
      ]_vars

\* C6 as amended: the same, but of the logins made after the purge, while
\* the table is still empty, those that give a phone number and a password
\* are answered "User not found" and those that omit one are answered
\* "Missing phoneNumber or password"; none succeeds.
C6_PurgeEmptiesAll ==
    [][/\ reply'.op = "purgeAll" => purgeAllEffect
       /\ (health.users = 0 /\ reply'.op = "login") =>
              \A c \in Conns, p \in PhoneInputs, s \in Secrets :
                  login(c, p, s) =>
                      /\ reply'.success = FALSE
                      /\ reply'.error =
                             IF p = << >> \/ s = ""
                             THEN "Missing phoneNumber or password"
                             ELSE "User not found"
      ]_vars

\* A purge has just deleted two identities and a chat.
C6_Witness ==
    /\ reply.op = "purgeAll"
    /\ reply.deleted.users = 2
    /\ reply.deleted.chats >= 1
    /\ health.users = 0
    /\ health.chats = 0

-----------------------------------------------------------------------------
(* C7 *)

\* C7: right after purgeAll no socket is a member of any channel.
C7_PurgeEmptiesRooms ==
    reply.op = "purgeAll" => \A ch \in ChatIds : rooms[ch] = {}

-----------------------------------------------------------------------------
(* C8 *)

\* C8: when a socket that userSockets binds to an identity disconnects, the
\* identity is still found by id and by phone number, its socketId is null
\* and the closed socket has no userSockets entry; and a later login for the
\* offline identity with the secret it registered, from another socket,
\* succeeds, makes that socket the identity's socketId and maps the socket to
\* the identity's id in userSockets.
C8_DisconnectThenRebind ==
    [][/\ reply'.op = "disconnect" =>
              \A c \in DOMAIN userSockets :
                  disconnect(c) =>
                      \A u \in {userSockets[c]},
                         p \in {users[userSockets[c]].phoneNumber} :
                          /\ find_user_by_id(u)'.success
                          /\ find_user_by_phone(p)'.success
                          /\ get_user_by_phone(p)'.success
                          /\ users'[u].socketId = NoSocket
                          /\ c \notin DOMAIN userSockets'
       /\ reply'.op = "login" =>
              \A c \in Conns, p \in PhonesGiven, s \in Secrets :
                  (/\ login(c, p, s)
                   /\ normalizePhone(p) \in DOMAIN usersByPhone)
                  => \A u \in {usersByPhone[normalizePhone(p)]} :
                         (/\ users[u].socketId = NoSocket
                          /\ users[u].password = sha256(s))
                         => /\ reply'.success
                            /\ users'[u].socketId = c
                            /\ c \in DOMAIN userSockets'
                            /\ userSockets'[c] = u
      ]_vars

-----------------------------------------------------------------------------
(* C9 *)

\* C9 as stated: the id a successful register returns is none of the ids
\* issued before it.
C9_NeverIssuedBefore ==
    [][(reply'.op = "register" /\ reply'.success) => reply'.userId \notin issued
      ]_vars

\* C9 as amended: the id a successful register returns is no key of users at
\* the time of the call, and every identity of the table is after the call
\* what it was before it: register overwrites and aliases no identity,
\* whatever candidates are drawn.
C9_NotInTable ==
    [][(reply'.op = "register" /\ reply'.success) =>
          /\ reply'.userId \notin DOMAIN users
          /\ DOMAIN users' = DOMAIN users \cup {reply'.userId}
          /\ \A u \in DOMAIN users : users'[u] = users[u]
      ]_vars

\* A register has succeeded after a candidate collided with an identity of
\* the table and another was drawn.
C9_Witness ==
    /\ reply.op = "register"
    /\ reply.success
    /\ reply.attempts > 0
    /\ Cardinality(DOMAIN users) = 2

-----------------------------------------------------------------------------
(* C10 *)

\* C10: an accepted send_message appends the stored message to the history
\* of its channel and delivers one new_message carrying that message to every
\* socket that is a member of the channel when it arrives (the sender's when
\* it is a member), and nothing to any other socket; with no member the
\* message is stored all the same and nothing is delivered. The members of a
\* channel are open sockets.
C10_SendReachesMembersOnly ==
    [][(reply'.op = "send_message" /\ reply'.success) =>
          LET ch == reply'.chatId
              stored == sentLog'[Len(sentLog')].message
          IN /\ Len(sentLog') = Len(sentLog) + 1
             /\ sentLog'[Len(sentLog')].chatId = ch
             /\ ch \in DOMAIN messages'
             /\ messages'[ch] = Append(history(ch), stored)
             /\ \A c \in rooms[ch] : connState[c] = "open"
             /\ \A c \in Conns :
                   delivered'[c] =
                       IF c \in rooms[ch]
                       THEN Append(delivered[c],
                                   [type |-> "new_message", chatId |-> ch,
                                    message |-> stored])
                       ELSE delivered[c]
      ]_vars

\* A message has just been sent to a channel with a member while another open
\* socket, no member of it, was delivered nothing.
C10_Witness ==
    /\ reply.op = "send_message"
    /\ reply.success
    /\ \E c \in rooms[reply.chatId] :
          /\ delivered[c] # << >>
          /\ delivered[c][Len(delivered[c])].type = "new_message"
    /\ \E c \in Conns \ rooms[reply.chatId] :
          /\ connState[c] = "open"
          /\ \A i \in 1 .. Len(delivered[c]) :
                delivered[c][i].type # "new_message"

-----------------------------------------------------------------------------
(* C11 *)

\* C11: a join_chat is refused (an error event to the caller, the rooms as
\* they were, no chat_history) exactly when its chatId is absent; whenever a
\* chatId is given, from an open socket bound to an identity or to none, the
\* socket is added to the room of the channel and is sent the full stored
\* history.
C11_JoinFailsOnlyWithoutChatId ==
    [][reply'.op = "join_chat" =>
          /\ reply'.success <=> reply'.chatId # ""
          /\ \A c \in Conns :
                delivered'[c] # delivered[c] =>
                    IF reply'.chatId = ""
                    THEN /\ delivered'[c] =
                                Append(delivered[c], [type |-> "join_error"])
                         /\ rooms' = rooms
                    ELSE /\ rooms' = socketJoin(c, reply'.chatId)
                         /\ delivered'[c] =
                                Append(delivered[c],
                                       [type |-> "chat_history",
                                        chatId |-> reply'.chatId,
                                        messages |-> history(reply'.chatId)])
      ]_vars

-----------------------------------------------------------------------------
(* C12 *)

-----------------------------------------------------------------------------
(* C13 *)

\* C13: purgeUsers empties users, usersByPhone and userSockets in one step,
\* reports the number of identities from before it, and leaves messages as it
\* was: the same channels with the same messages in the same order. With no
\* other purge, every channel's history is at all times every message ever
\* appended to it, so a join after the purge is sent the history from before.
C13_PurgeUsersKeepsHistory ==
    [][/\ reply'.op = "purgeUsers" =>
              /\ users' = EmptyMap
              /\ usersByPhone' = EmptyMap
              /\ userSockets' = EmptyMap
              /\ reply'.deleted.users = Cardinality(DOMAIN users)
              /\ messages' = messages
       /\ \A ch \in ChatIds : history(ch)' = appended(ch)'
       /\ (reply'.op = "join_chat" /\ reply'.success) =>
              \E c \in Conns :
                  delivered'[c] =
                      Append(delivered[c],
                             [type |-> "chat_history",
                              chatId |-> reply'.chatId,
                              messages |-> appended(reply'.chatId)])
      ]_vars

\* After a purge that deleted an identity, a socket has just joined a
\* channel and was sent the two messages sent to it before the purge.
C13_Witness ==
    /\ reply.op = "join_chat"
    /\ reply.success
    /\ users = EmptyMap
    /\ userSockets = EmptyMap
    /\ issued # {}
    /\ \E c \in Conns :
          /\ delivered[c] # << >>
          /\ \E e \in {delivered[c][Len(delivered[c])]} :
                /\ e.type = "chat_history"
                /\ Len(e.messages) = 2

-----------------------------------------------------------------------------
(* C14 *)

\* C14: one register generates at most 5 candidate ids (the first candidate
\* and the ones drawn after collisions, reply.attempts of them); it is
\* answered "Failed to generate unique ID" exactly when the last candidate is
\* a key of users like all before it, and otherwise succeeds with the first
\* candidate that is no key of users; a register answered so changes none of
\* users, usersByPhone and userSockets.
C14_AtMostFiveAttempts ==
    [][(reply'.op = "register" /\ "attempts" \in DOMAIN reply') =>
          /\ reply'.attempts + 1 =< 5
          /\ reply'.success => reply'.userId \notin DOMAIN users
          /\ reply'.success = FALSE =>
                /\ reply'.error = "Failed to generate unique ID"
                /\ UNCHANGED <<users, usersByPhone, userSockets>>
      ]_vars

-----------------------------------------------------------------------------
(* C15 *)

\* C15: in every step other than purgeAll each channel's history before the
\* step is an initial part of its history after it; an accepted send_message
\* makes the history of its channel the old one with exactly one message, the
\* stored one, added at the end, and leaves every other channel as it was;
\* and connection, register, login, join_chat, disconnect, purgeUsers and a
\* refused send_message leave messages as it was.
C15_HistoryAppendOnly ==
    [][/\ reply'.op # "purgeAll" =>
              /\ DOMAIN messages \subseteq DOMAIN messages'
              /\ \A ch \in ChatIds : IsPrefix(history(ch), history(ch)')
       /\ (reply'.op = "send_message" /\ reply'.success) =>
              \A ch \in ChatIds :
                  IF ch = reply'.chatId
                  THEN history(ch)' =
                           Append(history(ch), sentLog'[Len(sentLog')].message)
                  ELSE /\ history(ch)' = history(ch)
                       /\ ch \in DOMAIN messages' <=> ch \in DOMAIN messages
       /\ (\/ reply'.op \in {"connection", "register", "login", "join_chat",
                              "disconnect", "purgeUsers", "tick"}
           \/ (reply'.op = "send_message" /\ reply'.success = FALSE)) =>
              messages' = messages
      ]_vars

\* A message has just been sent to a channel that held one already, after a
\* registration, while the socket that joins is open.
C15_Witness ==
    /\ reply.op = "send_message"
    /\ reply.success
    /\ Len(history(reply.chatId)) >= 2
    /\ issued # {}
    /\ connState[MaxConns] = "open"

-----------------------------------------------------------------------------
(* C16 *)

\* C16: a refused operation changes no core state. A register answered
\* "Missing phoneNumber", "User already exists" or "Failed to generate unique
\* ID", a login answered "Missing phoneNumber or password", "User not found"
\* or "Invalid password", a refused join_chat and a refused send_message
\* change none of users, usersByPhone, userSockets, messages and the rooms; a
\* refused register or login delivers no event to any socket, and a refused
\* join_chat or send_message delivers one error event to one open socket,
\* the caller, and nothing to any other.
C16_RefusalChangesNothing ==
    [][(/\ reply'.op \in {"register", "login", "join_chat", "send_message"}
        /\ reply'.success = FALSE) =>
          /\ UNCHANGED <<users, usersByPhone, userSockets, messages, rooms,
                         connState, sentLog, issued>>
          /\ reply'.op \in {"register", "login"} =>
                /\ delivered' = delivered
                /\ reply'.error \in
                      IF reply'.op = "register"
                      THEN {"Missing phoneNumber", "User already exists",
                            "Failed to generate unique ID"}
                      ELSE {"Missing phoneNumber or password",
                            "User not found", "Invalid password"}
          /\ reply'.op \in {"join_chat", "send_message"} =>
                \E c \in Conns :
                    /\ connState[c] = "open"
                    /\ delivered' =
                           [delivered EXCEPT ![c] =
                               Append(@, [type |->
                                   IF reply'.op = "join_chat"
                                   THEN "join_error" ELSE "message_error"])]
      ]_vars

\* A register has just been refused for want of a free id, while a channel
\* holds a message and has a member and a second socket is open.
C16_Witness ==
    /\ reply.op = "register"
    /\ reply.success = FALSE
    /\ reply.error = "Failed to generate unique ID"
    /\ \E ch \in ChatIds : rooms[ch] # {} /\ history(ch) # << >>
    /\ \A c \in 1 .. 2 : connState[c] = "open"

-----------------------------------------------------------------------------
(* C17 *)

\* C17: the userId of every stored message is the userId of the message sent
\* when that is given; otherwise the id userSockets holds for the sending
\* socket at the time of the send; otherwise, when userSockets holds none for
\* it, "unknown". And the id userSockets holds for a socket is the id of the
\* latest successful register or login on it: a successful register or login
\* sets the entry of one socket to the id it returns, a purge removes every
\* entry, and no send or connection changes an entry.
C17_SenderResolution ==
    [][/\ (reply'.op = "send_message" /\ reply'.success) =>
              \A c \in Conns, ch \in ChatIds, u \in SenderInputs :
                  send_message(c, ch, <<[text |-> Len(sentLog) + 1,
                                         userId |-> u, timestamp |-> 0]>>)
                  => sentLog'[Len(sentLog')].message.userId =
                         IF u # "" THEN u
                         ELSE IF c \in DOMAIN userSockets THEN userSockets[c]
                         ELSE "unknown"
       /\ (reply'.op \in {"register", "login"} /\ reply'.success) =>
              \E c \in Conns :
                  userSockets' = Put(userSockets, c, reply'.userId)
       /\ reply'.op \in {"purgeUsers", "purgeAll"} => userSockets' = EmptyMap
       /\ reply'.op \in {"send_message", "connection"} =>
              userSockets' = userSockets
       /\ \A ch \in ChatIds :
              \A i \in 1 .. Len(history(ch)') :
                  history(ch)'[i].userId \in Ids \cup {"unknown"}
      ]_vars

\* A channel holds a message stamped with the identity its socket was bound
\* to, the second one registered there, and after it a message from an
\* unbound socket, stamped "unknown"; the identities have been purged.
C17_Witness ==
    /\ reply.op = "send_message"
    /\ reply.success
    /\ \E ch \in ChatIds :
          /\ Len(history(ch)) = 2
          /\ history(ch)[1].userId = IdChars[2]
          /\ history(ch)[2].userId = "unknown"
    /\ users = EmptyMap

-----------------------------------------------------------------------------
(* C18 *)

\* C18: in every reachable state usersByPhone maps phone number p to id i if
\* and only if users holds an identity i whose phoneNumber is p: no entry of
\* usersByPhone names an id that users lacks, and no two identities have the
\* same phoneNumber. It holds after every step: register writes both tables
\* and each purge empties both within one step.
C18_PhoneIndexBijection ==
    /\ \A p \in DOMAIN usersByPhone :
          /\ usersByPhone[p] \in DOMAIN users
          /\ users[usersByPhone[p]].phoneNumber = p
    /\ \A u \in DOMAIN users :
          /\ users[u].phoneNumber \in DOMAIN usersByPhone
          /\ usersByPhone[users[u].phoneNumber] = u
    /\ \A u, v \in DOMAIN users :
          users[u].phoneNumber = users[v].phoneNumber => u = v

\* A register given a phone number with its "+" has just added a second
\* identity to both tables, while a socket is bound to the first.
C18_Witness ==
    /\ reply.op = "register"
    /\ reply.success
    /\ Head(reply.phoneNumber) = "+"
    /\ Cardinality(DOMAIN users) = 2
    /\ Cardinality(DOMAIN usersByPhone) = 2
    /\ \E c \in DOMAIN userSockets : userSockets[c] # reply.userId

-----------------------------------------------------------------------------
(* C19 *)

\* C19: in every reachable state userSockets holds at most one id per socket
\* (it is a map), every socket it has an entry for is open, and every entry
\* is an id that is a key of users; a closed socket has no entry. And an
\* entry appears or changes only by a successful register or login, which
\* sets it to the id returned: a socket with an entry has completed one.
C19_ConnectionIndexSound ==
    /\ [](\A c \in DOMAIN userSockets :
              /\ c \in Conns
              /\ connState[c] = "open"
              /\ userSockets[c] \in DOMAIN users)
    /\ [][\A c \in DOMAIN userSockets' :
              (c \notin DOMAIN userSockets \/ userSockets'[c] # userSockets[c])
              => /\ reply'.op \in {"register", "login"}
                 /\ reply'.success
                 /\ userSockets'[c] = reply'.userId
         ]_vars

\* A socket that was bound to an identity has disconnected and has no entry,
\* while another socket, logged in as the same identity, has one.
C19_Witness ==
    /\ reply.op = "disconnect"
    /\ \E c, d \in Conns :
          /\ connState[c] = "closed"
          /\ c \notin DOMAIN userSockets
          /\ d \in DOMAIN userSockets
          /\ users[userSockets[d]].socketId = NoSocket

-----------------------------------------------------------------------------
(* C20 *)

\* C20: an identity is not marked offline while the socket of its latest
\* successful register or login is open. The socketId of an identity is
\* assigned by its registers and logins (the calling socket) and by
\* disconnect (null) only, so an identity whose socketId is an open socket
\* was last registered or logged in on that socket, with no disconnect of it
\* and no purge since: the disconnect of any other socket, one bound to the
\* identity earlier included, leaves that socketId as it is.
C20_LatestLoginStaysLive ==
    [][reply'.op = "disconnect" =>
          \A u \in DOMAIN users :
              (/\ users[u].socketId # NoSocket
               /\ connState'[users[u].socketId] = "open")
              => users'[u].socketId = users[u].socketId
      ]_vars

====
